---- MODULE Spec2Model ----
(***************************************************************************)
(* A model of ikin_expert.engine: the Rete network (Type, Alpha, Beta      *)
(* nodes), the rule compiler, the agenda and the declare / run driver.     *)
(*                                                                         *)
(* Objects live in an arena: engine.nodes[i] is the i-th node created, and *)
(* a reference to a node is its index.  A Fact is a record of its class    *)
(* and its attributes (a set of <<name, value>> pairs, so that a missing   *)
(* attribute is a missing pair).  A Token is the chain of facts from the   *)
(* root token to itself, the root token's fact being None.                 *)
(***************************************************************************)
EXTENDS Integers, Sequences, FiniteSets, TLC

\* ------------------------------------------------------------------ bounds
MaxRules == 2
MaxDeclares == 3
MaxSeeds == 2
MaxRuns == 2

\* ------------------------------------------------------- program constants
StepCap == 1000
DefaultSalience == 0

\* ------------------------------------------------------------------- facts
None == [cls |-> "None", attrs |-> {}]
NoneKey == -1

Customer(i) == [cls |-> "Customer", attrs |-> {<<"id", i>>}]
Order(c) == [cls |-> "Order", attrs |-> {<<"cust_id", c>>}]
Note == [cls |-> "Note", attrs |-> {}]

Facts == {Customer(1), Customer(2), Order(1), Note}

hasattr(obj, field) == \E p \in obj.attrs : p[1] = field
getattr(obj, field) == (CHOOSE p \in obj.attrs : p[1] = field)[2]

\* ---------------------------------------------------------------- bindings
\* MATCH.name: every attribute access builds a new Match object (oid).
Match(name, oid) == [kind |-> "match", v |-> 0, name |-> name, oid |-> oid]
Lit(v) == [kind |-> "lit", v |-> v, name |-> "", oid |-> 0]
isMatch(value) == value.kind = "match"

\* child.value == value: Match defines no __eq__, so two Match objects are
\* equal only when they are the same object; literals compare by value.
ValueEq(a, b) ==
  IF isMatch(a) \/ isMatch(b)
  THEN isMatch(a) /\ isMatch(b) /\ a.oid = b.oid
  ELSE a.v = b.v

\* ---------------------------------------------------------------- patterns
\* A constraint key is kept as its "__"-separated segments.
Con(key, value) == [key |-> key, value |-> value]
Pattern(model_class, constraints) ==
  [model_class |-> model_class, constraints |-> constraints]

\* An action: its arity, the facts it declares (re-entrantly), whether it raises.
Action(params, declares, raises) ==
  [params |-> params, declares |-> declares, raises |-> raises]

Rule(name, patterns, salience, action) ==
  [name |-> name, patterns |-> patterns, salience |-> salience, action |-> action]

\* ------------------------------------------------------------------ tokens
\* Token(parent, fact): the chain root..self; a parent of None is the empty chain.
NoToken == <<>>
Token(parent, fact) == Append(parent, fact)

\* Token.to_list: the facts of the chain, root first, None facts left out.
RECURSIVE to_list_walk(_, _)
to_list_walk(token, facts) ==
  IF token = NoToken THEN facts
  ELSE LET current == token[Len(token)]
           parent == SubSeq(token, 1, Len(token) - 1)
       IN to_list_walk(parent, IF current # None THEN Append(facts, current) ELSE facts)

Reversed(s) == [i \in 1..Len(s) |-> s[Len(s) + 1 - i]]

to_list(token) == Reversed(to_list_walk(token, <<>>))

\* Token.get_fact_by_index: indexes are 0-based; out of range gives None.
get_fact_by_index(token, index) ==
  LET facts == to_list(token)
  IN IF 0 <= index /\ index < Len(facts) THEN facts[index + 1] ELSE None

\* ------------------------------------------------------------------- nodes
EmptyDict == [k \in {} |-> <<>>]

\* One record shape for every node class; received_left, received_right and
\* emitted are history: what a Hash Beta node was activated with, and the
\* tokens a Beta node propagated.
ReteNode(kind) ==
  [kind |-> kind, children |-> <<>>,
   field |-> "", op |-> "", value |-> Lit(0), items |-> {},
   model_class |-> "",
   left_memory |-> <<>>, right_memory |-> <<>>,
   left_idx |-> 0, left_field |-> "", right_field |-> "",
   left_index |-> EmptyDict, right_index |-> EmptyDict,
   received_left |-> <<>>, received_right |-> <<>>, emitted |-> <<>>,
   rule_name |-> "", action |-> Action(0, <<>>, FALSE), salience |-> 0]

AlphaNode(field, op, value) ==
  [ReteNode("Alpha") EXCEPT !.field = field, !.op = op, !.value = value]
TypeNode(model_class) == [ReteNode("Type") EXCEPT !.model_class = model_class]
CartesianBetaNode == ReteNode("Cartesian")
HashJoinNode(left_idx, left_field, right_field) ==
  [ReteNode("HashJoin") EXCEPT !.left_idx = left_idx, !.left_field = left_field,
                               !.right_field = right_field]
DummyBetaNode == ReteNode("Dummy")
RuleTerminalNode(rule_name, action, salience) ==
  [ReteNode("Terminal") EXCEPT !.rule_name = rule_name, !.action = action,
                               !.salience = salience]

isAlphaNode(n) == n.kind = "Alpha"
isBetaNode(n) == n.kind \in {"Cartesian", "HashJoin"}
isRuleTerminalNode(n) == n.kind = "Terminal"

\* ------------------------------------------------------------------ agenda
\* seq is the activation's enqueue number (its identity; history only).
Activation(e, node, facts) ==
  [node |-> node, facts |-> facts, priority |-> e.nodes[node].salience,
   seq |-> e.enqueued + 1]

\* add_activation without the sort.
sort_insert_unsorted(sorted, x) == Append(sorted, x)

\* A sort that is not stable: the new element goes ahead of its equals.
RECURSIVE sort_insert_unstable(_, _)
sort_insert_unstable(sorted, x) ==
  IF sorted = <<>> THEN <<x>>
  ELSE IF Head(sorted).priority > x.priority
       THEN <<Head(sorted)>> \o sort_insert_unstable(Tail(sorted), x)
       ELSE <<x>> \o sorted

\* list.sort(key=priority, reverse=True) is stable: an element goes behind
\* every element whose priority is at least its own.
RECURSIVE sort_insert(_, _)
sort_insert(sorted, x) ==
  IF sorted = <<>> THEN <<x>>
  ELSE IF Head(sorted).priority >= x.priority
       THEN <<Head(sorted)>> \o sort_insert(Tail(sorted), x)
       ELSE <<x>> \o sorted

RECURSIVE sort_by_priority(_)
sort_by_priority(acts) ==
  IF acts = <<>> THEN <<>>
  ELSE sort_insert(sort_by_priority(SubSeq(acts, 1, Len(acts) - 1)), acts[Len(acts)])

Agenda_add_activation(e, node, facts) ==
  [e EXCEPT !.agenda = sort_by_priority(Append(@, Activation(e, node, facts))),
            !.enqueued = @ + 1]

\* pop taking the newest element of the list instead of the front one.
Agenda_pop_last(e) ==
  [e EXCEPT !.agenda = IF @ = <<>> THEN <<>> ELSE SubSeq(@, 1, Len(@) - 1)]

\* Agenda.pop: the front element, None (here: nothing) when the agenda is empty.
Agenda_pop(e) == [e EXCEPT !.agenda = IF @ = <<>> THEN <<>> ELSE Tail(@)]

\* ------------------------------------------------------------ propagation
\* Every operator below takes the engine e and gives the engine after the call.

\* activate_single calling the action at once instead of enqueuing.
RuleTerminalNode_activate_single_firing(e, id, fact) == [e EXCEPT !.invoked = @ + 1]

\* RuleTerminalNode.activate_token / activate_single
RuleTerminalNode_activate_token(e, id, token) ==
  Agenda_add_activation(e, id, to_list(token))

RuleTerminalNode_activate_single(e, id, fact) ==
  Agenda_add_activation(e, id, <<fact>>)

\* dict[key].append(x) on a defaultdict(list)
dict_append(d, key, x) ==
  IF key \in DOMAIN d THEN [d EXCEPT ![key] = Append(@, x)]
  ELSE [k \in DOMAIN d \cup {key} |-> IF k = key THEN <<x>> ELSE d[k]]

\* HashJoinNode._get_key: getattr(obj, field, None)
get_key(obj, field) == IF hasattr(obj, field) THEN getattr(obj, field) ELSE NoneKey

RECURSIVE BetaNode_left_activate(_, _, _)
RECURSIVE propagate_children(_, _, _)
RECURSIVE propagate_facts(_, _, _, _)
RECURSIVE propagate_tokens(_, _, _, _)

\* BetaNode.propagate: the loop over the children, for the new token.
propagate_children(e, children, new_token) ==
  IF children = <<>> THEN e
  ELSE LET child == Head(children)
           e1 == IF isBetaNode(e.nodes[child])
                 THEN BetaNode_left_activate(e, child, new_token)
                 ELSE IF isRuleTerminalNode(e.nodes[child])
                 THEN RuleTerminalNode_activate_token(e, child, new_token)
                 ELSE e
       IN propagate_children(e1, Tail(children), new_token)

BetaNode_propagate(e, id, parent_token, new_fact) ==
  LET new_token == Token(parent_token, new_fact)
  IN propagate_children([e EXCEPT !.nodes[id].emitted = Append(@, new_token)],
                        e.nodes[id].children, new_token)

\* for fact in facts: self.propagate(token, fact, engine)
propagate_facts(e, id, token, facts) ==
  IF facts = <<>> THEN e
  ELSE propagate_facts(BetaNode_propagate(e, id, token, Head(facts)), id, token,
                       Tail(facts))

\* for token in tokens: self.propagate(token, fact, engine)
propagate_tokens(e, id, tokens, fact) ==
  IF tokens = <<>> THEN e
  ELSE propagate_tokens(BetaNode_propagate(e, id, Head(tokens), fact), id,
                        Tail(tokens), fact)

\* left_activate that stores the token and joins nothing.
CartesianBetaNode_left_activate_store_only(e, id, token) ==
  [e EXCEPT !.nodes[id].left_memory = Append(@, token)]

CartesianBetaNode_left_activate(e, id, token) ==
  LET e1 == [e EXCEPT !.nodes[id].left_memory = Append(@, token)]
  IN propagate_facts(e1, id, token, e1.nodes[id].right_memory)

CartesianBetaNode_right_activate(e, id, fact) ==
  LET e1 == [e EXCEPT !.nodes[id].right_memory = Append(@, fact)]
  IN propagate_tokens(e1, id, e1.nodes[id].left_memory, fact)

HashJoinNode_left_activate(e, id, token) ==
  LET self == e.nodes[id]
      target_fact == get_fact_by_index(token, self.left_idx)
      e0 == [e EXCEPT !.nodes[id].received_left = Append(@, token)]
  IN IF target_fact = None THEN e0
     ELSE LET key == get_key(target_fact, self.left_field)
              e1 == [e0 EXCEPT !.nodes[id].left_index = dict_append(@, key, token)]
          IN IF key \in DOMAIN e1.nodes[id].right_index
             THEN propagate_facts(e1, id, token, e1.nodes[id].right_index[key])
             ELSE e1

\* right_activate joining the fact with every token, whatever its key.
HashJoinNode_right_activate_unkeyed(e, id, fact) ==
  LET self == e.nodes[id]
      key == get_key(fact, self.right_field)
      e1 == [e EXCEPT !.nodes[id].right_index = dict_append(@, key, fact),
                      !.nodes[id].received_right = Append(@, fact)]
      keys == DOMAIN e1.nodes[id].left_index
      RECURSIVE all_tokens(_)
      all_tokens(ks) ==
        IF ks = {} THEN <<>>
        ELSE LET k == CHOOSE x \in ks : TRUE
             IN e1.nodes[id].left_index[k] \o all_tokens(ks \ {k})
  IN propagate_tokens(e1, id, all_tokens(keys), fact)

HashJoinNode_right_activate(e, id, fact) ==
  LET self == e.nodes[id]
      key == get_key(fact, self.right_field)
      e1 == [e EXCEPT !.nodes[id].right_index = dict_append(@, key, fact),
                      !.nodes[id].received_right = Append(@, fact)]
  IN IF key \in DOMAIN e1.nodes[id].left_index
     THEN propagate_tokens(e1, id, e1.nodes[id].left_index[key], fact)
     ELSE e1

BetaNode_left_activate(e, id, token) ==
  IF e.nodes[id].kind = "HashJoin" THEN HashJoinNode_left_activate(e, id, token)
  ELSE CartesianBetaNode_left_activate(e, id, token)

BetaNode_right_activate(e, id, fact) ==
  IF e.nodes[id].kind = "HashJoin" THEN HashJoinNode_right_activate(e, id, fact)
  ELSE CartesianBetaNode_right_activate(e, id, fact)

\* compare with "gte" taken for "gt".
compare_gte_as_gt(op, fact_val, value) ==
  CASE op = "eq"  -> fact_val = value
    [] op = "gt"  -> fact_val > value
    [] op = "gte" -> fact_val > value
    [] op = "lt"  -> fact_val < value
    [] op = "lte" -> fact_val <= value
    [] op = "neq" -> fact_val # value
    [] OTHER -> FALSE

\* The comparison an Alpha node makes on a literal.
compare(op, fact_val, value) ==
  CASE op = "eq"  -> fact_val = value
    [] op = "gt"  -> fact_val > value
    [] op = "gte" -> fact_val >= value
    [] op = "lt"  -> fact_val < value
    [] op = "lte" -> fact_val <= value
    [] op = "neq" -> fact_val # value
    [] OTHER -> FALSE

AlphaNode_test(self, fact) ==
  IF ~hasattr(fact, self.field) THEN FALSE
  ELSE IF isMatch(self.value) THEN TRUE
  ELSE compare(self.op, getattr(fact, self.field), self.value.v)

RECURSIVE AlphaNode_activate(_, _, _)
RECURSIVE activate_children(_, _, _)

\* The dispatch loop of AlphaNode.activate and TypeNode.activate.
activate_children(e, children, fact) ==
  IF children = <<>> THEN e
  ELSE LET child == Head(children)
           e1 == IF isAlphaNode(e.nodes[child])
                 THEN AlphaNode_activate(e, child, fact)
                 ELSE IF isBetaNode(e.nodes[child])
                 THEN BetaNode_right_activate(e, child, fact)
                 ELSE IF isRuleTerminalNode(e.nodes[child])
                 THEN RuleTerminalNode_activate_single(e, child, fact)
                 ELSE e
       IN activate_children(e1, Tail(children), fact)

\* activate without the test: every fact is stored and passed on.
AlphaNode_activate_untested(e, id, fact) ==
  activate_children([e EXCEPT !.nodes[id].items = @ \cup {fact}],
                    e.nodes[id].children, fact)

\* activate that passes a fact on only the first time it sees it.
AlphaNode_activate_once(e, id, fact) ==
  IF AlphaNode_test(e.nodes[id], fact) /\ fact \notin e.nodes[id].items
  THEN activate_children([e EXCEPT !.nodes[id].items = @ \cup {fact}],
                         e.nodes[id].children, fact)
  ELSE e

AlphaNode_activate(e, id, fact) ==
  IF AlphaNode_test(e.nodes[id], fact)
  THEN activate_children([e EXCEPT !.nodes[id].items = @ \cup {fact}],
                         e.nodes[id].children, fact)
  ELSE e

\* isinstance(fact, self.model_class): the schemas have no subclasses.
TypeNode_activate(e, id, fact) ==
  IF fact.cls = e.nodes[id].model_class
  THEN activate_children(e, e.nodes[id].children, fact)
  ELSE e

\* DummyBetaNode.left_activate: the root token to every Beta child.
RECURSIVE dummy_children(_, _)
dummy_children(e, children) ==
  IF children = <<>> THEN e
  ELSE LET child == Head(children)
           e1 == IF isBetaNode(e.nodes[child])
                 THEN BetaNode_left_activate(e, child, Token(NoToken, None))
                 ELSE e
       IN dummy_children(e1, Tail(children))

DummyBetaNode_left_activate(e) ==
  dummy_children(e, e.nodes[e.dummy_beta].children)

\* declare making the Type node it does not find (not propagating to it).
declare_creating(e, fact) ==
  IF fact.cls \in DOMAIN e.rete_root
  THEN TypeNode_activate(e, e.rete_root[fact.cls], fact)
  ELSE LET en == [e EXCEPT !.nodes = Append(@, TypeNode(fact.cls))]
       IN [en EXCEPT !.rete_root =
              [c \in DOMAIN @ \cup {fact.cls} |->
                 IF c = fact.cls THEN Len(en.nodes) ELSE @[c]]]

\* KnowledgeEngine.declare
declare(e, fact) ==
  IF fact.cls \in DOMAIN e.rete_root
  THEN TypeNode_activate(e, e.rete_root[fact.cls], fact)
  ELSE e

\* ---------------------------------------------------------------- compiler
\* A new object: appended to the arena; its reference is its index.
new_node(e, node) == [e EXCEPT !.nodes = Append(@, node)]
last_node(e) == Len(e.nodes)

\* ReteNode.add_child
add_child(e, parent, child) == [e EXCEPT !.nodes[parent].children = Append(@, child)]

\* "field__op" -> (field, op); a key without "__" means op "eq".
key_field(key) == key[1]
key_op(key) == IF Len(key) > 1 THEN key[2] ELSE "eq"

dict_set(d, key, x) == [k \in DOMAIN d \cup {key} |-> IF k = key THEN x ELSE d[k]]

\* The search of _get_or_create_alpha_chain: the first Alpha child with the
\* same (field, op, value), 0 when there is none.
RECURSIVE find_child(_, _, _, _, _)
find_child(e, children, field, op, value) ==
  IF children = <<>> THEN 0
  ELSE LET child == e.nodes[Head(children)]
       IN IF isAlphaNode(child) /\ child.field = field /\ child.op = op
             /\ ValueEq(child.value, value)
          THEN Head(children)
          ELSE find_child(e, Tail(children), field, op, value)

RECURSIVE alpha_chain(_, _, _)
alpha_chain(e, current, constraints) ==
  IF constraints = <<>> THEN [e |-> e, node |-> current]
  ELSE LET c == Head(constraints)
           field == key_field(c.key)
           op == key_op(c.key)
           found == find_child(e, e.nodes[current].children, field, op, c.value)
       IN IF found # 0
          THEN alpha_chain(e, found, Tail(constraints))
          ELSE LET e1 == new_node(e, AlphaNode(field, op, c.value))
                   e2 == add_child(e1, current, last_node(e1))
               IN alpha_chain(e2, last_node(e1), Tail(constraints))

get_or_create_alpha_chain(e, pattern) ==
  LET e1 == IF pattern.model_class \notin DOMAIN e.rete_root
            THEN LET en == new_node(e, TypeNode(pattern.model_class))
                 IN [en EXCEPT !.rete_root =
                        dict_set(@, pattern.model_class, last_node(en))]
            ELSE e
  IN alpha_chain(e1, e1.rete_root[pattern.model_class], pattern.constraints)

\* The seeding of known_vars from the first pattern.
RECURSIVE first_pattern_vars(_, _)
first_pattern_vars(known_vars, constraints) ==
  IF constraints = <<>> THEN known_vars
  ELSE LET c == Head(constraints)
       IN first_pattern_vars(
            IF isMatch(c.value)
            THEN dict_set(known_vars, c.value.name, <<0, key_field(c.key)>>)
            ELSE known_vars,
            Tail(constraints))

\* The scan of pattern i for a known variable: the loop stops at the first
\* one (break); a variable met before that and not known is registered.
\* join_config is <<>> for None.
RECURSIVE scan_pattern(_, _, _)
scan_pattern(known_vars, constraints, i) ==
  IF constraints = <<>> THEN [known_vars |-> known_vars, join_config |-> <<>>]
  ELSE LET c == Head(constraints)
           field_name == key_field(c.key)
       IN IF isMatch(c.value)
          THEN IF c.value.name \in DOMAIN known_vars
               THEN [known_vars |-> known_vars,
                     join_config |-> <<known_vars[c.value.name][1],
                                       known_vars[c.value.name][2], field_name>>]
               ELSE scan_pattern(dict_set(known_vars, c.value.name, <<i, field_name>>),
                                 Tail(constraints), i)
          ELSE scan_pattern(known_vars, Tail(constraints), i)

\* for i, pattern in enumerate(patterns): ...
RECURSIVE compile_patterns(_, _, _, _, _)
compile_patterns(e, patterns, i, known_vars, current_beta_input) ==
  IF i >= Len(patterns) THEN [e |-> e, current_beta_input |-> current_beta_input]
  ELSE LET pattern == patterns[i + 1]
           chain == get_or_create_alpha_chain(e, pattern)
           alpha_tail == chain.node
       IN IF i = 0
          THEN compile_patterns(chain.e, patterns, i + 1, known_vars, current_beta_input)
          ELSE LET scan == scan_pattern(known_vars, pattern.constraints, i)
                   cfg == scan.join_config
                   e1 == new_node(chain.e,
                                  IF cfg # <<>> THEN HashJoinNode(cfg[1], cfg[2], cfg[3])
                                  ELSE CartesianBetaNode)
                   join_node == last_node(e1)
                   e2 == add_child(e1, current_beta_input, join_node)
                   e3 == add_child(e2, alpha_tail, join_node)
               IN compile_patterns(e3, patterns, i + 1, scan.known_vars, join_node)

compile_rule(e, method) ==
  LET patterns == method.patterns
      e0 == new_node(e, RuleTerminalNode(method.name, method.action, method.salience))
      terminal == last_node(e0)
  IN IF Len(patterns) = 1
     THEN LET chain == get_or_create_alpha_chain(e0, patterns[1])
          IN add_child(chain.e, chain.node, terminal)
     ELSE LET known_vars == first_pattern_vars(EmptyDict, patterns[1].constraints)
              built == compile_patterns(e0, patterns, 0, known_vars, e0.dummy_beta)
              e1 == add_child(built.e, built.current_beta_input, terminal)
          IN DummyBetaNode_left_activate(e1)

\* KnowledgeEngine.__init__ up to the call of _build_network.  enqueued and
\* invoked are history: the activations enqueued and the action calls made.
KnowledgeEngine ==
  [agenda |-> <<>>, rete_root |-> [c \in {} |-> 0], dummy_beta |-> 1,
   nodes |-> <<DummyBetaNode>>, enqueued |-> 0, invoked |-> 0]

\* ------------------------------------------------------------- the clients
\* The rules an engine subclass may carry, in the order of their names
\* (inspect.getmembers lists the members sorted by name).
NoAction(params) == Action(params, <<>>, FALSE)

Rules ==
  << Rule("adult", <<Pattern("Customer", <<Con(<<"id", "gte">>, Lit(1)),
                                           Con(<<"id", "neq">>, Lit(1))>>)>>,
          5, NoAction(1)),
     Rule("any", <<Pattern("Customer", <<Con(<<"id", "gte">>, Lit(1))>>)>>,
          DefaultSalience, NoAction(0)),
     Rule("boom", <<Pattern("Order", <<>>)>>, 10, Action(1, <<>>, TRUE)),
     Rule("cart", <<Pattern("Customer", <<>>), Pattern("Order", <<>>)>>,
          DefaultSalience, NoAction(2)),
     Rule("chain", <<Pattern("Customer", <<>>), Pattern("Order", <<>>),
                     Pattern("Customer", <<Con(<<"id", "neq">>, Lit(1))>>)>>,
          DefaultSalience, NoAction(1)),
     Rule("ghost", <<Pattern("Customer", <<Con(<<"cust_id">>, Lit(1))>>)>>,
          DefaultSalience, NoAction(1)),
     Rule("hash", <<Pattern("Customer", <<Con(<<"id">>, Match("c", 1))>>),
                    Pattern("Order", <<Con(<<"cust_id">>, Match("c", 2))>>)>>,
          DefaultSalience, NoAction(2)),
     Rule("loop", <<Pattern("Order", <<>>)>>, DefaultSalience,
          Action(1, <<Order(1)>>, FALSE)),
     Rule("triple", <<Pattern("Order", <<Con(<<"cust_id">>, Match("c", 3))>>),
                      Pattern("Order", <<>>),
                      Pattern("Customer", <<Con(<<"id", "eq">>, Match("c", 4))>>)>>,
          DefaultSalience, NoAction(3)),
     Rule("vars_after",
          <<Pattern("Customer", <<Con(<<"id">>, Match("c", 5))>>),
            Pattern("Order", <<Con(<<"cust_id">>, Match("c", 6)),
                               Con(<<"cust_id", "gte">>, Match("x", 7))>>),
            Pattern("Customer", <<Con(<<"id">>, Match("x", 8))>>)>>,
          DefaultSalience, NoAction(1)),
     Rule("vars_before",
          <<Pattern("Customer", <<Con(<<"id">>, Match("c", 9))>>),
            Pattern("Order", <<Con(<<"cust_id", "gte">>, Match("x", 10)),
                               Con(<<"cust_id">>, Match("c", 11))>>),
            Pattern("Customer", <<Con(<<"id">>, Match("x", 12))>>)>>,
          DefaultSalience, NoAction(1)) >>

RuleIds == 1..Len(Rules)
RuleId(name) == CHOOSE i \in RuleIds : Rules[i].name = name

\* The rules that only the compiler specification installs.
CompilerRuleIds == {RuleId("vars_after"), RuleId("vars_before")}

\* The rules and the facts of the cascade specification.
CascadeRuleIds == {RuleId("boom"), RuleId("loop")}
SeedFacts == {Customer(1), Order(1)}

\* ------------------------------------------------------------------- state
VARIABLES
  engine,    \* the KnowledgeEngine object and the nodes it reaches
  pc,        \* "init": in __init__; "idle": between calls; "run": in run()
  steps,     \* run()'s local counter
  installed, \* the rules compiled so far (indexes into Rules)
  declared,  \* history: the facts declared so far, in order
  fired      \* history: the activations popped so far, with what the call did
             \* (step: run()'s counter at the pop; enq: the activations
             \* enqueued before the pop)

vars == <<engine, pc, steps, installed, declared, fired>>

Init ==
  /\ engine = KnowledgeEngine
  /\ pc = "init"
  /\ steps = 0
  /\ installed = <<>>
  /\ declared = <<>>
  /\ fired = <<>>

\* _build_network: one iteration of its loop, the next rule by name.
CompileRule(r) ==
  /\ pc = "init"
  /\ Len(installed) < MaxRules
  /\ installed # <<>> => r > installed[Len(installed)]
  /\ engine' = compile_rule(engine, Rules[r])
  /\ installed' = Append(installed, r)
  /\ UNCHANGED <<pc, steps, declared, fired>>

\* __init__ returns.
FinishBuild ==
  /\ pc = "init"
  /\ pc' = "idle"
  /\ UNCHANGED <<engine, steps, installed, declared, fired>>

\* The client calls declare(fact).
Declare(fact) ==
  /\ pc = "idle"
  /\ engine' = declare(engine, fact)
  /\ declared' = Append(declared, fact)
  /\ UNCHANGED <<pc, steps, installed, fired>>

\* The client calls run(): steps = 0.
RunStart ==
  /\ pc = "idle"
  /\ pc' = "run"
  /\ steps' = 0
  /\ UNCHANGED <<engine, installed, declared, fired>>

RECURSIVE declare_all(_, _)
declare_all(e, facts) ==
  IF facts = <<>> THEN e ELSE declare_all(declare(e, Head(facts)), Tail(facts))

Min(a, b) == IF a < b THEN a ELSE b

\* activation.facts[:params]
call_args(activation, params) ==
  SubSeq(activation.facts, 1, Min(params, Len(activation.facts)))

\* The call binds its arguments before the body runs: too few facts for the
\* action's parameters is a TypeError and the body does not run.
call_binds(activation, params) == params <= Len(activation.facts)

\* run() without the try: the exception ends the call.
after_action_uncaught(raised) == IF raised THEN "idle" ELSE "run"

\* except Exception: print(...); then steps += 1 -- the loop goes on.
after_action(raised) == "run"

\* The loop condition off by one.
under_cap_inclusive(n) == n <= StepCap

\* while steps < 1000
under_cap(n) == n < StepCap

\* The history kept: all of it, or (in the long cascade) its last entry.
Kept(log, all) == IF all \/ log = <<>> THEN log ELSE <<log[Len(log)]>>

\* One iteration of run()'s loop with an activation on the agenda.
RunIteration(all) ==
  /\ pc = "run"
  /\ under_cap(steps)
  /\ engine.agenda # <<>>
  /\ LET activation == Head(engine.agenda)
         popped == [Agenda_pop(engine) EXCEPT !.invoked = @ + 1]
         action == engine.nodes[activation.node].action
         params == action.params
         binds == call_binds(activation, params)
         raised == ~binds \/ action.raises
     IN /\ engine' = IF binds THEN declare_all(popped, action.declares) ELSE popped
        /\ declared' = Kept(IF binds THEN declared \o action.declares ELSE declared, all)
        /\ fired' = Kept(Append(fired, [activation |-> activation,
                                        args |-> call_args(activation, params),
                                        called |-> binds, raised |-> raised,
                                        step |-> steps, enq |-> engine.enqueued]),
                         all)
        /\ pc' = after_action(raised)
        /\ steps' = steps + 1
  /\ UNCHANGED installed

RunStep == RunIteration(TRUE)
RunStepCascade == RunIteration(FALSE)

\* run() returns: the agenda is empty (break) or the cap is reached.
RunReturn ==
  /\ pc = "run"
  /\ ~under_cap(steps) \/ engine.agenda = <<>>
  /\ pc' = "idle"
  /\ UNCHANGED <<engine, steps, installed, declared, fired>>

\* What a KnowledgeEngine object has besides its rules: the attributes
\* __init__ sets and the methods the class defines.
KnowledgeEngine_attrs ==
  {"agenda", "rete_root", "dummy_beta", "_build_network",
   "_get_or_create_alpha_chain", "_compile_rule", "declare", "run"}

hasattr_engine(name) ==
  name \in KnowledgeEngine_attrs
    \/ \E i \in 1..Len(installed) : Rules[installed[i]].name = name

\* The client calls engine.reset(): the attribute lookup fails and the
\* AttributeError ends the client.
Reset ==
  /\ pc = "idle"
  /\ ~hasattr_engine("reset")
  /\ pc' = "AttributeError"
  /\ UNCHANGED <<engine, steps, installed, declared, fired>>

\* The facts the head activation's action would declare.
next_declares ==
  IF engine.agenda = <<>> THEN <<>>
  ELSE engine.nodes[Head(engine.agenda).node].action.declares

Next ==
  \/ \E r \in RuleIds \ CompilerRuleIds : CompileRule(r)
  \/ FinishBuild
  \/ \E fact \in Facts : Len(declared) < MaxDeclares /\ Declare(fact)
  \/ RunStart
  \/ Len(declared) + Len(next_declares) <= MaxDeclares /\ RunStep
  \/ RunReturn

Spec == Init /\ [][Next]_vars

\* The cascade: rules whose actions declare without end, up to the step cap.
\* The client declares its facts before the first activation fires.
NextCascade ==
  \/ \E r \in CascadeRuleIds : CompileRule(r)
  \/ FinishBuild
  \/ \E fact \in SeedFacts : fired = <<>> /\ Len(declared) < MaxSeeds /\ Declare(fact)
  \/ engine.enqueued < MaxRuns * StepCap /\ RunStart
  \/ RunStepCascade
  \/ RunReturn
  \/ Reset

SpecCascade == Init /\ [][NextCascade]_vars

\* The compiler alone: __init__ over every rule set, no fact declared.
NextCompile ==
  \/ \E r \in RuleIds : CompileRule(r)
  \/ FinishBuild

SpecCompile == Init /\ [][NextCompile]_vars

\* ------------------------------------------------------- reading the state
IsInstalled(name) == \E i \in 1..Len(installed) : Rules[installed[i]].name = name
InstalledRules == {Rules[installed[i]] : i \in 1..Len(installed)}

RuleOf(activation) == engine.nodes[activation.node].rule_name

\* The match tuples on the agenda for one rule, in agenda order.
FactsOf(agenda, nodes, name) ==
  LET acts == SelectSeq(agenda, LAMBDA a : nodes[a.node].rule_name = name)
  IN [i \in 1..Len(acts) |-> acts[i].facts]

Occurrences(s, x) == Cardinality({i \in 1..Len(s) : s[i] = x})

\* No run() has popped anything: every activation enqueued is on the agenda.
BeforeAnyRun == pc = "idle" /\ fired = <<>>

\* ------------------------------------------------------------------ claims

\* C1: for the two-pattern rule without a shared variable (cart: Pattern(Customer),
\* Pattern(Order)), the activations enqueued are exactly the pairs (a, b) of a
\* declared Customer a and a declared Order b, each pair once per pair of declares.
C1_CartesianPairs ==
  (BeforeAnyRun /\ IsInstalled("cart")) =>
    LET tuples == FactsOf(engine.agenda, engine.nodes, "cart")
    IN /\ \A i \in 1..Len(tuples) :
            /\ Len(tuples[i]) = 2
            /\ tuples[i][1].cls = "Customer"
            /\ tuples[i][2].cls = "Order"
       /\ \A a \in Facts, b \in Facts :
            (a.cls = "Customer" /\ b.cls = "Order") =>
              Occurrences(tuples, <<a, b>>)
                = Occurrences(declared, a) * Occurrences(declared, b)

\* C2: for the two-pattern rule joined on a shared variable (hash:
\* Pattern(Customer, id=MATCH.c), Pattern(Order, cust_id=MATCH.c)), the activations
\* enqueued are exactly the pairs (c, o) with c.id = o.cust_id, each once per pair
\* of declares, and no others.
C2_HashJoinPairs ==
  (BeforeAnyRun /\ IsInstalled("hash")) =>
    LET tuples == FactsOf(engine.agenda, engine.nodes, "hash")
    IN /\ \A i \in 1..Len(tuples) :
            /\ Len(tuples[i]) = 2
            /\ tuples[i][1].cls = "Customer"
            /\ tuples[i][2].cls = "Order"
            /\ getattr(tuples[i][1], "id") = getattr(tuples[i][2], "cust_id")
       /\ \A c \in Facts, o \in Facts :
            (c.cls = "Customer" /\ o.cls = "Order"
             /\ getattr(c, "id") = getattr(o, "cust_id")) =>
              Occurrences(tuples, <<c, o>>)
                = Occurrences(declared, c) * Occurrences(declared, o)

\* What a literal constraint asks of a fact: the field is there and stands in
\* the relation the key names (no "__op": equality) to the literal.
LitHolds(c, fact) ==
  LET rel == IF Len(c.key) = 1 THEN "eq" ELSE c.key[2]
  IN \E p \in fact.attrs :
       /\ p[1] = c.key[1]
       /\ rel \in {"eq", "neq", "gt", "gte", "lt", "lte"}
       /\ rel = "eq" => p[2] = c.value.v
       /\ rel = "neq" => ~(p[2] = c.value.v)
       /\ rel = "gt" => c.value.v < p[2]
       /\ rel = "gte" => ~(p[2] < c.value.v)
       /\ rel = "lt" => p[2] < c.value.v
       /\ rel = "lte" => ~(c.value.v < p[2])

Satisfies(pattern, fact) ==
  /\ fact.cls = pattern.model_class
  /\ \A i \in 1..Len(pattern.constraints) : LitHolds(pattern.constraints[i], fact)

SinglePatternLiteral(R) ==
  /\ Len(R.patterns) = 1
  /\ \A i \in 1..Len(R.patterns[1].constraints) :
       ~isMatch(R.patterns[1].constraints[i].value)

\* The facts declared by the step, in order.
NewlyDeclared == SubSeq(declared', Len(declared) + 1, Len(declared'))
\* The agenda the step's declares start from: run() pops before the action runs.
AgendaBeforeDeclares ==
  IF Len(fired') > Len(fired) THEN Tail(engine.agenda) ELSE engine.agenda

Singletons(facts) == [i \in 1..Len(facts) |-> <<facts[i]>>]

\* C3: for a single-pattern rule R with literal constraints, whatever other rules
\* are installed, each declare of a fact f enqueues one activation of R with match
\* tuple [f] if f is of R's schema and satisfies every constraint, and none otherwise.
C3_SinglePatternFilter ==
  [][\A R \in InstalledRules :
       SinglePatternLiteral(R) =>
         FactsOf(engine'.agenda, engine'.nodes, R.name)
           = FactsOf(AgendaBeforeDeclares, engine.nodes, R.name)
             \o Singletons(SelectSeq(NewlyDeclared,
                                     LAMBDA f : Satisfies(R.patterns[1], f)))]_vars

C3_Witness ==
  /\ IsInstalled("adult") /\ IsInstalled("any")
  /\ Occurrences(declared, Customer(1)) = 1
  /\ Occurrences(declared, Customer(2)) = 1
  /\ FactsOf(engine.agenda, engine.nodes, "adult") = << <<Customer(2)>> >>
  /\ Len(FactsOf(engine.agenda, engine.nodes, "any")) = 2

\* Two entries of the log that the same run() popped one after the other.
SameRun(i) == fired[i + 1].step = fired[i].step + 1

\* C4 as claimed: in a single run(), also when actions declare facts, the
\* activations popped have non-increasing priority.
C4_NonIncreasing ==
  \A i \in 1..(Len(fired) - 1) :
    SameRun(i) => fired[i + 1].activation.priority <= fired[i].activation.priority

\* C4 as amended: in a single run(), an activation popped right after another has
\* no higher priority than it, unless it was enqueued by that other's action.
C4_NonIncreasingUnlessNew ==
  \A i \in 1..(Len(fired) - 1) :
    SameRun(i) =>
      \/ fired[i + 1].activation.priority <= fired[i].activation.priority
      \/ fired[i + 1].activation.seq > fired[i].enq

C4_Witness ==
  \E i \in 1..(Len(fired) - 1) :
    /\ SameRun(i)
    /\ fired[i + 1].activation.priority > fired[i].activation.priority

\* a is ahead of b: higher priority, or the same priority and enqueued earlier.
Precedes(a, b) ==
  \/ a.priority > b.priority
  \/ a.priority = b.priority /\ a.seq < b.seq

\* C5: the agenda is ordered by priority descending, equal priorities in enqueue
\* order; pop gives the oldest activation of the highest priority present; an
\* activation fires after every activation of equal or higher priority that was
\* enqueued before it.
C5_AgendaOrder ==
  /\ \A i, j \in 1..Len(engine.agenda) :
       i < j => Precedes(engine.agenda[i], engine.agenda[j])
  /\ \A i \in 1..Len(fired) :
       /\ \A j \in (i + 1)..Len(fired) :
            fired[j].activation.seq <= fired[i].enq =>
              Precedes(fired[i].activation, fired[j].activation)
       /\ \A k \in 1..Len(engine.agenda) :
            engine.agenda[k].seq <= fired[i].enq =>
              Precedes(fired[i].activation, engine.agenda[k])
  /\ \A j \in 1..Len(fired) :
       /\ \A k \in 1..Len(engine.agenda) :
            ~(/\ engine.agenda[k].seq < fired[j].activation.seq
              /\ engine.agenda[k].priority >= fired[j].activation.priority)
       /\ \A i \in 1..Len(fired) :
            (/\ fired[i].activation.seq < fired[j].activation.seq
             /\ fired[i].activation.priority >= fired[j].activation.priority) => i < j

\* An activation enqueued during a run waits behind an older one of its priority.
C5_Witness ==
  \E k \in 2..Len(engine.agenda), i \in 1..Len(fired) :
    /\ engine.agenda[k].seq > fired[i].enq
    /\ engine.agenda[1].seq <= fired[i].enq
    /\ engine.agenda[1].priority = engine.agenda[k].priority
    /\ RuleOf(engine.agenda[1]) # RuleOf(engine.agenda[k])

\* C6: run() makes at most 1000 action invocations, however long the cascade of
\* re-entrant declares: the counter never passes the cap, no invocation is the
\* 1001st of its run, and at the cap run() can only return, which is no error.
C6_StepCap ==
  /\ steps <= StepCap
  /\ fired # <<>> => fired[Len(fired)].step < StepCap
  /\ (pc = "run" /\ steps > 0) => fired[Len(fired)].step = steps - 1
  /\ (pc = "run" /\ steps = StepCap) => (ENABLED RunReturn /\ ~ENABLED RunStepCascade)

\* run() has returned at the cap, in the middle of a cascade of re-entrant declares.
C6_Witness ==
  /\ pc = "idle"
  /\ steps = StepCap
  /\ engine.agenda # <<>>
  /\ engine.agenda[1].seq > StepCap

\* C7: when the action of a popped activation raises, run() goes on: the loop
\* counts the step and stays in run(), and the activations that were behind the
\* popped one are all still on the agenda, in the same order.
C7_ExceptionIsolated ==
  [][(Len(fired') > Len(fired) /\ fired'[Len(fired')].raised) =>
       /\ pc' = "run"
       /\ steps' = steps + 1
       /\ SelectSeq(engine'.agenda, LAMBDA a : a.seq <= engine.enqueued)
            = Tail(engine.agenda)]_vars

\* An action raised and the same run popped the next activation.
C7_Witness ==
  \E i \in 1..(Len(fired) - 1) :
    /\ fired[i].called /\ fired[i].raised
    /\ SameRun(i)
    /\ ~fired[i + 1].raised

\* A class some pattern of some installed rule names.
Referenced(cls) ==
  \E R \in InstalledRules : \E i \in 1..Len(R.patterns) : R.patterns[i].model_class = cls

\* C8: declare(f) for a fact whose schema no installed rule references changes
\* nothing of the engine: agenda, type-node map, every node and every memory.
C8_UnreferencedDeclareNoop ==
  [][(/\ pc = "idle"
      /\ Len(declared') = Len(declared) + 1
      /\ ~Referenced(declared'[Len(declared')].cls)) =>
       (engine' = engine /\ pc' = "idle")]_vars

C8_Witness ==
  /\ pc = "idle"
  /\ installed # <<>>
  /\ engine.agenda # <<>>
  /\ declared # <<>>
  /\ ~Referenced(declared[Len(declared)].cls)

\* Two Alpha nodes with the same (field, op, value), binding references being the
\* same when their names are.
SameConstraint(a, b) ==
  /\ a.field = b.field
  /\ a.op = b.op
  /\ IF isMatch(a.value) \/ isMatch(b.value)
     THEN isMatch(a.value) /\ isMatch(b.value) /\ a.value.name = b.value.name
     ELSE a.value.v = b.value.v

\* C9: no Type node and no Alpha node has two Alpha children with the same
\* (field, op, value), two binding references of the same name being the same value.
C9_NodeSharing ==
  \A n \in 1..Len(engine.nodes) :
    engine.nodes[n].kind \in {"Type", "Alpha"} =>
      LET children == engine.nodes[n].children
      IN \A i, j \in 1..Len(children) :
           (/\ i < j
            /\ isAlphaNode(engine.nodes[children[i]])
            /\ isAlphaNode(engine.nodes[children[j]])) =>
             ~SameConstraint(engine.nodes[children[i]], engine.nodes[children[j]])

\* The engine as __init__ leaves it for the installed rules.
RECURSIVE build_network(_, _)
build_network(e, ids) ==
  IF ids = <<>> THEN e ELSE build_network(compile_rule(e, Rules[Head(ids)]), Tail(ids))

\* The declared facts in one fixed order.
FactOrder == <<Customer(1), Customer(2), Order(1), Note>>
RECURSIVE InFactOrder(_, _)
InFactOrder(facts, k) ==
  IF k > Len(FactOrder) THEN <<>>
  ELSE [i \in 1..Occurrences(facts, FactOrder[k]) |-> FactOrder[k]]
       \o InFactOrder(facts, k + 1)

SameBag(s, t) ==
  /\ Len(s) = Len(t)
  /\ \A i \in 1..Len(s) : Occurrences(s, s[i]) = Occurrences(t, s[i])

Enqueued(e) ==
  [i \in 1..Len(e.agenda) |-> <<e.nodes[e.agenda[i].node].rule_name, e.agenda[i].facts>>]

\* C10: declaring the same facts in another order (all before run) gives the same
\* activations (rule, match tuple), and every Beta node has received the same
\* tokens: a (token, fact) pair is emitted once whichever side arrives first.
C10_OrderIndependent ==
  BeforeAnyRun =>
    LET other == declare_all(build_network(KnowledgeEngine, installed),
                             InFactOrder(declared, 1))
    IN /\ SameBag(Enqueued(engine), Enqueued(other))
       /\ \A n \in 1..Len(engine.nodes) :
            /\ SameBag(engine.nodes[n].left_memory, other.nodes[n].left_memory)
            /\ DOMAIN engine.nodes[n].left_index = DOMAIN other.nodes[n].left_index
            /\ \A k \in DOMAIN engine.nodes[n].left_index :
                 SameBag(engine.nodes[n].left_index[k], other.nodes[n].left_index[k])

\* Facts declared in another than the fixed order, with joins made at a
\* Cartesian and at a Hash Beta node.
C10_Witness ==
  /\ BeforeAnyRun
  /\ declared # InFactOrder(declared, 1)
  /\ Len(FactsOf(engine.agenda, engine.nodes, "chain")) > 0
  /\ Len(FactsOf(engine.agenda, engine.nodes, "triple")) > 0

\* The Beta nodes the Dummy root feeds.
DummyBetas ==
  {engine.nodes[engine.dummy_beta].children[i] :
     i \in 1..Len(engine.nodes[engine.dummy_beta].children)}

RootToken == Token(NoToken, None)

\* C11: every Cartesian Beta node that is a child of the Dummy root holds the
\* root token exactly once in its left memory, however many multi-pattern rules
\* were compiled, and so no activation of a rule is doubled by another rule.
C11_RootTokenOnce ==
  \A b \in DummyBetas :
    engine.nodes[b].kind = "Cartesian" =>
      Occurrences(engine.nodes[b].left_memory, RootToken) = 1

\* C12: declare never invokes an action.  A declare by the client leaves the
\* number of action calls as it was and every activation it caused is on the
\* agenda; an iteration of run() makes the one call of the popped activation,
\* and what that action declares is only enqueued.
C12_DeclareOnlyEnqueues ==
  [][/\ (pc = "idle" /\ Len(declared') > Len(declared)) =>
          /\ engine'.invoked = engine.invoked
          /\ Len(engine'.agenda) = Len(engine.agenda)
                                     + (engine'.enqueued - engine.enqueued)
     /\ Len(fired') > Len(fired) =>
          /\ engine'.invoked = engine.invoked + 1
          /\ Len(engine'.agenda) = Len(engine.agenda) - 1
                                     + (engine'.enqueued - engine.enqueued)
     /\ \A k \in (engine.enqueued + 1)..engine'.enqueued :
          \E i \in 1..Len(engine'.agenda) : engine'.agenda[i].seq = k]_vars

\* An action inside run() declared a fact, and the activation that caused is
\* waiting on the agenda with no further call made.
C12_Witness ==
  /\ pc = "run"
  /\ fired # <<>>
  /\ fired[Len(fired)].called
  /\ engine.nodes[fired[Len(fired)].activation.node].action.declares # <<>>
  /\ engine.invoked = Len(fired)
  /\ \E i \in 1..Len(engine.agenda) : engine.agenda[i].seq > fired[Len(fired)].enq

\* C13: every activation of a rule with n patterns carries a match tuple of n
\* facts, the i-th an instance of the schema of the rule's i-th pattern.
C13_TupleShape ==
  \A k \in 1..Len(engine.agenda) :
    LET R == Rules[RuleId(RuleOf(engine.agenda[k]))]
        facts == engine.agenda[k].facts
    IN /\ Len(facts) = Len(R.patterns)
       /\ \A i \in 1..Len(facts) : facts[i].cls = R.patterns[i].model_class

\* C14: the engine offers reset(): a client's call of reset() does not fail.
C14_ResetOffered == pc # "AttributeError"

HashJoins == {n \in 1..Len(engine.nodes) : engine.nodes[n].kind = "HashJoin"}

\* The fact a token has at a 0-based position of its match tuple; None if none.
FactAt(token, idx) ==
  LET facts == SelectSeq(token, LAMBDA f : f # None)
  IN IF idx + 1 \in 1..Len(facts) THEN facts[idx + 1] ELSE None

\* The join key of a fact: the field's value, the null key when it has none.
KeyOf(fact, field) ==
  IF \E p \in fact.attrs : p[1] = field
  THEN (CHOOSE p \in fact.attrs : p[1] = field)[2]
  ELSE NoneKey

BetasOf(name) ==
  LET ids == [n \in 1..Len(engine.nodes) |-> n]
      t == CHOOSE n \in 1..Len(engine.nodes) :
             isRuleTerminalNode(engine.nodes[n]) /\ engine.nodes[n].rule_name = name
  IN SelectSeq(ids, LAMBDA n :
       /\ n > t
       /\ isBetaNode(engine.nodes[n])
       /\ \A m \in (t + 1)..n : ~isRuleTerminalNode(engine.nodes[m]))

Bindings(pattern) == SelectSeq(pattern.constraints, LAMBDA c : isMatch(c.value))

Binds(pattern, name) ==
  \E k \in 1..Len(pattern.constraints) :
    isMatch(pattern.constraints[k].value) /\ pattern.constraints[k].value.name = name

\* Whether a pattern before P[j] binds the name (positions are 0-based).
BoundBefore(R, name, j) == \E i \in 0..(j - 1) : Binds(R.patterns[i + 1], name)

\* Where the name was registered: the first pattern that binds it, and the
\* field of its first binding there.
Registered(R, name, j) ==
  LET i == CHOOSE i \in 0..(j - 1) :
             /\ Binds(R.patterns[i + 1], name)
             /\ \A h \in 0..(i - 1) : ~Binds(R.patterns[h + 1], name)
      first == SelectSeq(Bindings(R.patterns[i + 1]), LAMBDA c : c.value.name = name)[1]
  IN <<i, first.key[1]>>

\* The join P[j] is to get: a Hash join on the first binding of P[j] that an
\* earlier pattern binds, a Cartesian join when there is none.
ExpectedJoin(R, j) ==
  LET reused == SelectSeq(Bindings(R.patterns[j + 1]),
                          LAMBDA c : BoundBefore(R, c.value.name, j))
  IN IF reused = <<>>
     THEN [kind |-> "Cartesian", left_idx |-> 0, left_field |-> "", right_field |-> ""]
     ELSE LET reg == Registered(R, reused[1].value.name, j)
          IN [kind |-> "HashJoin", left_idx |-> reg[1], left_field |-> reg[2],
              right_field |-> reused[1].key[1]]

\* C16: every binding of a pattern P[i] that is new there is registered as
\* (i, its field), wherever it stands relative to a binding P[i] reuses; so a later
\* pattern that references it is joined by a Hash Beta node keyed on (i, field).
C16_NewBindingsRegistered ==
  \A R \in InstalledRules :
    Len(R.patterns) > 1 =>
      /\ Len(BetasOf(R.name)) = Len(R.patterns) - 1
      /\ \A j \in 1..(Len(R.patterns) - 1) :
           LET node == engine.nodes[BetasOf(R.name)[j]]
           IN [kind |-> node.kind, left_idx |-> node.left_idx,
               left_field |-> node.left_field, right_field |-> node.right_field]
                = ExpectedJoin(R, j)

\* The Type or Alpha node a node hangs under (0 if none).
AlphaParent(n) ==
  LET above == {m \in 1..Len(engine.nodes) :
                  /\ engine.nodes[m].kind \in {"Type", "Alpha"}
                  /\ \E k \in 1..Len(engine.nodes[m].children) :
                       engine.nodes[m].children[k] = n}
  IN IF above = {} THEN 0 ELSE CHOOSE m \in above : TRUE

\* What an Alpha node with a literal asks of a fact.
AlphaHolds(node, fact) ==
  isMatch(node.value) \/
    LitHolds(Con(IF node.op = "eq" THEN <<node.field>> ELSE <<node.field, node.op>>,
                 node.value), fact)

\* The nodes below a Type or Alpha node, each with its path: the Type and Alpha
\* nodes a fact goes through to reach it (an Alpha node is on its own path).
RECURSIVE Walk(_, _)
Walk(n, path) ==
  {<<n, path>>} \cup
    UNION {LET c == engine.nodes[n].children[k]
           IN IF isAlphaNode(engine.nodes[c]) THEN Walk(c, Append(path, c))
              ELSE {<<c, path>>} :
           k \in 1..Len(engine.nodes[n].children)}

NodePaths ==
  UNION {Walk(engine.rete_root[c], <<engine.rete_root[c]>>) : c \in DOMAIN engine.rete_root}

\* The fact passes every node of the path: the Type node's schema test and the
\* Alpha nodes' constraints.
HoldsOn(path, fact) ==
  \A i \in 1..Len(path) :
    /\ IF engine.nodes[path[i]].kind = "Type"
       THEN fact.cls = engine.nodes[path[i]].model_class
       ELSE AlphaHolds(engine.nodes[path[i]], fact)

BucketFacts(index) == UNION {{index[k][i] : i \in 1..Len(index[k])} : k \in DOMAIN index}

\* C17: every fact in an Alpha node's item set, in a Beta node's right memory or
\* right index, or handed to a terminal under an Alpha node, is of the schema of
\* the Type node above and satisfies every literal constraint on the path down
\* from it.
C17_MemoriesFiltered ==
  \A p \in NodePaths :
    LET n == p[1]
        path == p[2]
        node == engine.nodes[n]
    IN /\ isAlphaNode(node) => \A f \in node.items : HoldsOn(path, f)
       /\ isBetaNode(node) =>
            /\ \A i \in 1..Len(node.right_memory) : HoldsOn(path, node.right_memory[i])
            /\ \A f \in BucketFacts(node.right_index) : HoldsOn(path, f)
       /\ isRuleTerminalNode(node) =>
            \A k \in 1..Len(engine.agenda) :
              engine.agenda[k].node = n => HoldsOn(path, engine.agenda[k].facts[1])

\* A fact that fails a literal was declared: it is in the Alpha node above the
\* failing one and in no memory below, where a fact that passes is.
C17_Witness ==
  /\ \E n \in 1..Len(engine.nodes) :
       /\ isAlphaNode(engine.nodes[n])
       /\ engine.nodes[n].op = "neq"
       /\ engine.nodes[n].items = {Customer(2)}
       /\ \E b \in 1..Len(engine.nodes) :
            /\ isBetaNode(engine.nodes[b])
            /\ AlphaParent(b) = n
            /\ engine.nodes[b].right_memory = <<Customer(2)>>
  /\ \E i \in 1..Len(declared) : declared[i] = Customer(1)
  /\ \E m \in 1..Len(engine.nodes) :
       /\ isAlphaNode(engine.nodes[m])
       /\ engine.nodes[m].op = "gte"
       /\ Customer(1) \in engine.nodes[m].items

\* C18: for every activation popped by run(), the action is called with exactly
\* k facts, the first k of the match tuple, k being the action's arity; so the
\* action of an n-pattern rule of arity n is called with n facts.
C18_ActionArity ==
  \A i \in 1..Len(fired) :
    LET k == engine.nodes[fired[i].activation.node].action.params
    IN /\ fired[i].called
       /\ Len(fired[i].args) = k
       /\ fired[i].args = SubSeq(fired[i].activation.facts, 1, k)

\* C19: every activation enqueued is either on the agenda or was popped, once.
\* When run() returns below the cap the agenda is empty and every activation
\* enqueued so far has been fired; when it returns at the cap, what was not fired
\* stays on the agenda in priority order; and each iteration of run(), those of
\* the next run() too, fires the front of the agenda and takes it off.
C19_RunDrains ==
  /\ [](engine.invoked + Len(engine.agenda) = engine.enqueued)
  /\ [][/\ (pc = "run" /\ pc' = "idle") =>
             IF steps < StepCap
             THEN engine'.agenda = <<>> /\ engine'.invoked = engine'.enqueued
             ELSE /\ engine'.agenda = engine.agenda
                  /\ \A i, j \in 1..Len(engine'.agenda) :
                       i < j => Precedes(engine'.agenda[i], engine'.agenda[j])
        /\ (pc = "run" /\ steps' = steps + 1) =>
             /\ fired'[Len(fired')].activation = Head(engine.agenda)
             /\ \A i \in 1..Len(engine'.agenda) :
                  engine'.agenda[i].seq # Head(engine.agenda).seq
             /\ SelectSeq(engine'.agenda, LAMBDA a : a.seq <= engine.enqueued)
                  = Tail(engine.agenda)]_vars

\* A second run() has just fired an activation that the run() before it, which
\* returned at the cap, left on the agenda with another one.
C19_Witness ==
  /\ pc = "run"
  /\ steps = 1
  /\ engine.invoked = StepCap + 1
  /\ fired[Len(fired)].activation.seq <= fired[Len(fired)].enq
  /\ Len(engine.agenda) >= 2

\* How many entries of a sequence satisfy a test.
Count(s, Test(_)) == Cardinality({i \in 1..Len(s) : Test(s[i])})

\* C20: declaring a fact equal to one already declared propagates again: the
\* activations of a single-pattern rule (waiting or fired) are as many as the
\* declare calls of facts that satisfy it, a Beta node's right memory or right
\* index bucket has one entry per declare that reached it, and an Alpha item set
\* has each fact once.
C20_DeclareNotIdempotent ==
  /\ \A R \in InstalledRules :
       SinglePatternLiteral(R) =>
         Len(FactsOf(engine.agenda, engine.nodes, R.name))
           + Count(fired, LAMBDA f : RuleOf(f.activation) = R.name)
           = Count(declared, LAMBDA f : Satisfies(R.patterns[1], f))
  /\ \A p \in NodePaths :
       LET n == p[1]
           path == p[2]
           node == engine.nodes[n]
       IN /\ node.kind = "Cartesian" =>
               Len(node.right_memory) = Count(declared, LAMBDA f : HoldsOn(path, f))
          /\ node.kind = "HashJoin" =>
               \A k \in DOMAIN node.right_index :
                 Len(node.right_index[k])
                   = Count(declared, LAMBDA f : /\ HoldsOn(path, f)
                                                /\ KeyOf(f, node.right_field) = k)
          /\ isAlphaNode(node) =>
               node.items = {declared[i] : i \in {j \in 1..Len(declared) :
                                                    HoldsOn(path, declared[j])}}

\* The same fact was declared twice: two activations of a single-pattern rule
\* carry it, a right memory holds it twice, the Alpha item set once.
C20_Witness ==
  /\ declared = <<Customer(2), Customer(2)>>
  /\ FactsOf(engine.agenda, engine.nodes, "adult") = << <<Customer(2)>>, <<Customer(2)>> >>
  /\ \E n \in 1..Len(engine.nodes) :
       /\ engine.nodes[n].kind = "Cartesian"
       /\ engine.nodes[n].right_memory = <<Customer(2), Customer(2)>>
       /\ engine.nodes[AlphaParent(n)].items = {Customer(2)}

====
